---- MODULE Spec2Model ----
(***************************************************************************)
(* A model of src/src/pages/Messages.tsx: the AddComplianceDialog           *)
(* component (standards loader, storage provisioner, file upload pipeline, *)
(* record submission, form reset) and the avatar upload of                 *)
(* ProfileSettings.                                                        *)
(*                                                                         *)
(* Strings are sequences of one-character strings, so that split and join  *)
(* are computed as the code computes them.  An absent value (null,         *)
(* undefined or '') that the code tests with ! or || is the empty          *)
(* sequence; the SQL null written to a column is Null.                     *)
(*                                                                         *)
(* Every await of the code is a point where the handler is suspended: the  *)
(* code up to an await is one action, the code from the response of that   *)
(* call up to the next await is another.  A handler reads the props and    *)
(* state of the render it was created in, so an invocation of handleSubmit *)
(* carries a snapshot of what it closed over.                              *)
(***************************************************************************)
EXTENDS Integers, Sequences, FiniteSets

\* ---------------------------------------------------------------- bounds

\* handleSubmit invocations in one behaviour
MaxSubmissions == 1
\* handleSubmit invocations in one behaviour in which the user submits again
MaxRetrySubmissions == 2
\* fetchStandards calls in flight at once
MaxPendingFetches == 2
\* handleAvatarUpload invocations in one behaviour
MaxAvatarRuns == 2

\* ---------------------------------------------------------------- strings

Null == <<"NULL">>

RECURSIVE SplitFrom(_, _, _)
\* the segments of s after a segment `cur` collected so far, cut at character c
SplitFrom(s, c, cur) ==
    IF s = <<>> THEN <<cur>>
    ELSE IF Head(s) = c THEN <<cur>> \o SplitFrom(Tail(s), c, <<>>)
    ELSE SplitFrom(Tail(s), c, Append(cur, Head(s)))

\* String.prototype.split with a one-character separator
Split(s, c) == SplitFrom(s, c, <<>>)

\* Array.prototype.pop on a non-empty array: its last element
Pop(a) == a[Len(a)]

RECURSIVE Join(_, _)
\* Array.prototype.join
Join(a, sep) ==
    IF a = <<>> THEN <<>>
    ELSE IF Len(a) = 1 THEN a[1]
    ELSE a[1] \o sep \o Join(Tail(a), sep)

\* file.name.split('.').pop()
FileExt(name) == Pop(Split(name, "."))

\* `${Date.now()}_${Math.random().toString(36).substr(2, 9)}.${fileExt}`
StorageFileName(stamp, rand, ext) == stamp \o <<"_">> \o rand \o <<".">> \o ext

\* `${organisationMember.organisation_id}/${fileName}`
StorageFilePath(org, fileName) == org \o <<"/">> \o fileName

Digit == <<"0", "1", "2", "3", "4", "5", "6", "7", "8", "9">>

RECURSIVE Decimal(_)
\* a natural number in decimal digits, as `${n}` writes it
Decimal(n) ==
    IF n < 10 THEN <<Digit[n + 1]>>
    ELSE Decimal(n \div 10) \o <<Digit[(n % 10) + 1]>>

\* values Math.random().toString(36).substr(2, 9) can take
Rands == { <<"x">> }

\* the selections the file picker can hand over: none, one file, two files (one of
\* them with a comma and no dot in its name)
FileLists ==
    { <<>>,
      << <<"a", ".", "p">> >>,
      << <<"a", ".", "p">>, <<"b", ",", "c">> >> }

\* ---------------------------------------------------------------- identity

\* organisationMember of useAuth(); a null organisationMember reads as absent
\* in every field (organisationMember?.x)
NoMember == [organisation_id |-> <<>>, full_name |-> <<>>, email |-> <<>>, role |-> ""]

Members ==
    { NoMember,
      [organisation_id |-> <<"o", "1">>, full_name |-> <<"n">>, email |-> <<"e">>, role |-> "admin"],
      [organisation_id |-> <<"o", "1">>, full_name |-> <<>>, email |-> <<"e">>, role |-> "member"],
      [organisation_id |-> <<"o", "1">>, full_name |-> <<>>, email |-> <<>>, role |-> "member"],
      [organisation_id |-> <<"o", "2">>, full_name |-> <<"m">>, email |-> <<"f">>, role |-> "member"] }

Orgs == { m.organisation_id : m \in Members } \ { <<>> }

\* organisationMember?.role === 'admin'
IsAdmin(m) == m.role = "admin"

\* organisationMember?.full_name || organisationMember?.email || ''
MemberName(m) ==
    IF m.full_name # <<>> THEN m.full_name
    ELSE IF m.email # <<>> THEN m.email
    ELSE <<>>

\* the values the responsible-person selector offers: member.full_name || member.email
\* of the roster of useTeamMembers()
TeamNames == { <<"t">> }

\* ---------------------------------------------------------------- standards table

\* the rows of the remote table 'standards'; a clause code is a sequence of numbers
StandardsTable ==
    { [id |-> 1, organisation_id |-> <<"o", "1">>, standard_clause |-> <<4, 2>>],
      [id |-> 2, organisation_id |-> <<"o", "1">>, standard_clause |-> <<4>>],
      [id |-> 3, organisation_id |-> <<"o", "2">>, standard_clause |-> <<5>>],
      [id |-> 4, organisation_id |-> <<"o", "1">>, standard_clause |-> <<3, 9>>] }

RECURSIVE ClauseLeq(_, _)
\* the order of .order('standard_clause', { ascending: true })
ClauseLeq(a, b) ==
    IF a = <<>> THEN TRUE
    ELSE IF b = <<>> THEN FALSE
    ELSE IF Head(a) < Head(b) THEN TRUE
    ELSE IF Head(a) > Head(b) THEN FALSE
    ELSE ClauseLeq(Tail(a), Tail(b))

RECURSIVE OrderByClause(_)
\* the rows of a set in ascending clause order (ties by id)
OrderByClause(rows) ==
    IF rows = {} THEN <<>>
    ELSE LET least == CHOOSE r \in rows :
                        \A q \in rows :
                            /\ ClauseLeq(r.standard_clause, q.standard_clause)
                            /\ (ClauseLeq(q.standard_clause, r.standard_clause) => r.id <= q.id)
         IN  <<least>> \o OrderByClause(rows \ {least})

\* .from('standards').select('*').eq('organisation_id', org).order('standard_clause', ...)
SelectStandards(org) == OrderByClause({ r \in StandardsTable : r.organisation_id = org })

\* ---------------------------------------------------------------- notifications

NoToast == [title |-> "", text |-> "", file |-> <<>>, cause |-> "", count |-> 0, variant |-> ""]

\* toast({ title: "Error", description: ..., variant: "destructive" })
ErrorToast(text) ==
    [title |-> "Error", text |-> text, file |-> <<>>, cause |-> "", count |-> 0, variant |-> "destructive"]

\* ---------------------------------------------------------------- state

VARIABLES
    \* AddComplianceDialog: props and context
    member,             \* organisationMember of useAuth()
    open,               \* the open prop
    \* AddComplianceDialog: useState
    complianceItem, standardClause, complianceStatus, responsiblePerson,
    nextReviewDate, notes, files, loading, standards, standardsLoading,
    \* calls of AddComplianceDialog in flight, and what its handlers did
    pendingFetches,     \* per organisation, the fetchStandards calls awaiting their response
    subs,               \* the invocations of handleSubmit, in order
    loaderToast,        \* the notification fetchStandards showed last
    \* the remote services
    buckets,            \* the names of the storage buckets
    objects,            \* the objects of bucket compliance-evidence
    records,            \* the rows of table compliance_records, in insertion order
    \* ProfileSettings
    user, avatarUrl, uploading, avatarRuns, avatarObjects, userMetadata

formVars == <<complianceItem, standardClause, complianceStatus, responsiblePerson,
              nextReviewDate, notes, files>>
fetchVars == <<standards, standardsLoading, pendingFetches>>
remoteVars == <<buckets, objects, records>>
profileVars == <<user, avatarUrl, uploading, avatarRuns, avatarObjects, userMetadata>>
dialogVars == <<member, open, formVars, loading, fetchVars, subs, loaderToast, remoteVars>>
vars == <<dialogVars, profileVars>>

EvidenceBucket == "compliance-evidence"
AvatarBucket == "avatars"

\* the users useAuth() can supply to ProfileSettings: none, or one with an id
Users == { <<>>, <<"u">> }

InitDialog ==
    /\ member \in Members
    /\ open = FALSE
    /\ complianceItem = <<>>
    /\ standardClause = <<>>
    /\ complianceStatus = <<>>
    /\ responsiblePerson = <<>>
    /\ nextReviewDate = <<>>
    /\ notes = <<>>
    /\ files = <<>>
    /\ loading = FALSE
    /\ standards = <<>>
    /\ standardsLoading = TRUE
    /\ pendingFetches = [o \in Orgs |-> 0]
    /\ subs = <<>>
    /\ loaderToast = NoToast
    /\ buckets \in { {AvatarBucket}, {AvatarBucket, EvidenceBucket} }
    /\ objects = {}
    /\ records = <<>>

InitProfile ==
    /\ user = <<>>
    /\ avatarUrl = <<>>
    /\ uploading = FALSE
    /\ avatarRuns = <<>>
    /\ avatarObjects = {}
    /\ userMetadata = <<>>

Init == InitDialog /\ InitProfile

\* ---------------------------------------------------------------- standards loader

RECURSIVE PendingIn(_)
PendingIn(S) ==
    IF S = {} THEN 0
    ELSE LET o == CHOOSE x \in S : TRUE
         IN  pendingFetches[o] + PendingIn(S \ {o})

\* the fetchStandards calls in flight
PendingCount == PendingIn(Orgs)

\* fetchStandards up to its await: the early return, setStandardsLoading(true), the query;
\* the number of queries in flight at once is kept within MaxPendingFetches
FetchStandardsCall(m) ==
    IF m.organisation_id = <<>>
    THEN UNCHANGED fetchVars
    ELSE /\ PendingCount < MaxPendingFetches
         /\ standardsLoading' = TRUE
         /\ pendingFetches' = [pendingFetches EXCEPT ![m.organisation_id] = @ + 1]
         /\ UNCHANGED standards

\* the effect with dependencies [open, organisationMember?.organisation_id], run after a
\* render in which one of them changed
StandardsEffect(newOpen, newMember) ==
    IF /\ (newOpen # open \/ newMember.organisation_id # member.organisation_id)
       /\ newOpen
       /\ newMember.organisation_id # <<>>
    THEN FetchStandardsCall(newMember)
    ELSE UNCHANGED fetchVars

\* the parent renders the dialog with open = true
OpenDialog ==
    /\ ~open
    /\ open' = TRUE
    /\ StandardsEffect(TRUE, member)
    /\ UNCHANGED <<member, formVars, loading, subs, loaderToast, remoteVars, profileVars>>

\* the X control and the Cancel button: onOpenChange(false)
CloseDialog ==
    /\ open
    /\ open' = FALSE
    /\ UNCHANGED <<member, formVars, loading, fetchVars, subs, loaderToast, remoteVars, profileVars>>

\* the auth context supplies another organisationMember
AuthChange ==
    \E m \in Members \ {member} :
        /\ member' = m
        /\ StandardsEffect(open, m)
        /\ UNCHANGED <<open, formVars, loading, subs, loaderToast, remoteVars, profileVars>>

\* what the standards query can answer: the rows, no rows and no error, or an error
FetchOutcomes == { "data", "null", "error" }

\* data || []
StandardsOf(outcome, org) == IF outcome = "data" THEN SelectStandards(org) ELSE <<>>

\* fetchStandards from the response of the query on: setStandards or the error
\* notification, then setStandardsLoading(false)
FetchStandardsReturn ==
    \E org \in Orgs, outcome \in FetchOutcomes :
        /\ pendingFetches[org] > 0
        /\ pendingFetches' = [pendingFetches EXCEPT ![org] = @ - 1]
        /\ IF outcome = "error"
           THEN /\ loaderToast' = ErrorToast("Failed to fetch standards")
                /\ UNCHANGED standards
           ELSE /\ standards' = StandardsOf(outcome, org)
                /\ UNCHANGED loaderToast
        /\ standardsLoading' = FALSE
        /\ UNCHANGED <<member, open, formVars, loading, subs, remoteVars, profileVars>>

\* the standard clause selector shows "No standards available"
NoStandardsShown == Len(standards) = 0 /\ ~standardsLoading

\* ---------------------------------------------------------------- form state holder

\* what the user can type or pick in the plain fields
ItemValues == { <<>>, <<"i">> }
StatusValues == { <<"Compliant">>, <<"At Risk">>, <<"Non-Compliant">> }
DateValues == { <<>>, <<"2", "0", "2", "6">> }
NotesValues == { <<>>, <<"n">> }

\* onChange of the compliance item input
SetComplianceItem ==
    \E v \in ItemValues \ {complianceItem} :
        /\ open
        /\ complianceItem' = v
        /\ UNCHANGED <<standardClause, complianceStatus, responsiblePerson, nextReviewDate, notes, files>>
        /\ UNCHANGED <<member, open, loading, fetchVars, subs, loaderToast, remoteVars, profileVars>>

\* onValueChange of the standard clause selector: one of the listed standards
SetStandardClause ==
    \E k \in 1..Len(standards) :
        /\ open
        /\ standardClause # standards[k].standard_clause
        /\ standardClause' = standards[k].standard_clause
        /\ UNCHANGED <<complianceItem, complianceStatus, responsiblePerson, nextReviewDate, notes, files>>
        /\ UNCHANGED <<member, open, loading, fetchVars, subs, loaderToast, remoteVars, profileVars>>

\* onValueChange of the compliance status selector
SetComplianceStatus ==
    \E v \in StatusValues \ {complianceStatus} :
        /\ open
        /\ complianceStatus' = v
        /\ UNCHANGED <<complianceItem, standardClause, responsiblePerson, nextReviewDate, notes, files>>
        /\ UNCHANGED <<member, open, loading, fetchVars, subs, loaderToast, remoteVars, profileVars>>

\* the responsible-person selector is rendered for an admin only
SelectorOffered == IsAdmin(member)

\* onValueChange of the responsible-person selector
SetResponsiblePerson ==
    \E v \in TeamNames \ {responsiblePerson} :
        /\ open
        /\ SelectorOffered
        /\ responsiblePerson' = v
        /\ UNCHANGED <<complianceItem, standardClause, complianceStatus, nextReviewDate, notes, files>>
        /\ UNCHANGED <<member, open, loading, fetchVars, subs, loaderToast, remoteVars, profileVars>>

\* onSelect of the calendar
SetNextReviewDate ==
    \E v \in DateValues \ {nextReviewDate} :
        /\ open
        /\ nextReviewDate' = v
        /\ UNCHANGED <<complianceItem, standardClause, complianceStatus, responsiblePerson, notes, files>>
        /\ UNCHANGED <<member, open, loading, fetchVars, subs, loaderToast, remoteVars, profileVars>>

\* onChange of the notes textarea
SetNotes ==
    \E v \in NotesValues \ {notes} :
        /\ open
        /\ notes' = v
        /\ UNCHANGED <<complianceItem, standardClause, complianceStatus, responsiblePerson, nextReviewDate, files>>
        /\ UNCHANGED <<member, open, loading, fetchVars, subs, loaderToast, remoteVars, profileVars>>

\* onFilesChange of the FileUpload component
SetFiles ==
    \E v \in FileLists \ {files} :
        /\ open
        /\ files' = v
        /\ UNCHANGED <<complianceItem, standardClause, complianceStatus, responsiblePerson, nextReviewDate, notes>>
        /\ UNCHANGED <<member, open, loading, fetchVars, subs, loaderToast, remoteVars, profileVars>>

\* a resetForm that leaves the files
ResetFormKeepsFiles ==
    /\ complianceItem' = <<>>
    /\ standardClause' = <<>>
    /\ complianceStatus' = <<>>
    /\ responsiblePerson' = <<>>
    /\ nextReviewDate' = <<>>
    /\ notes' = <<>>
    /\ UNCHANGED files

\* resetForm
ResetForm ==
    /\ complianceItem' = <<>>
    /\ standardClause' = <<>>
    /\ complianceStatus' = <<>>
    /\ responsiblePerson' = <<>>
    /\ nextReviewDate' = <<>>
    /\ notes' = <<>>
    /\ files' = <<>>

\* disabled of the submit button
SubmitDisabled ==
    \/ loading
    \/ complianceItem = <<>>
    \/ standardClause = <<>>
    \/ complianceStatus = <<>>
    \/ (IsAdmin(member) /\ responsiblePerson = <<>>)

\* ---------------------------------------------------------------- record submission

NoRow == [organisation_id |-> Null, responsible_person |-> Null, file_name |-> Null, file_path |-> Null]

\* an invocation of handleSubmit: what it closed over (member, responsiblePerson, files),
\* where it is suspended (pc), its locals (fileNames, filePaths, the path being uploaded),
\* the calls it issued (listCalls, createCalls, uploadCalls, insertCalls, the row it
\* passed to insert, toasts, successCalls, closeCalls, resetCalls) and the answers it got
\* (listing, creation, failedUpload: the number of the upload that failed, inserted)
NewSubmission(m, person, fl) ==
    [member |-> m, responsiblePerson |-> person, files |-> fl,
     pc |-> "start", path |-> <<>>, fileNames |-> <<>>, filePaths |-> <<>>,
     listCalls |-> 0, createCalls |-> 0, uploadCalls |-> 0, insertCalls |-> 0,
     row |-> NoRow, toasts |-> <<>>, successCalls |-> 0, closeCalls |-> 0, resetCalls |-> 0,
     listing |-> "", creation |-> "", failedUpload |-> 0, inserted |-> 0]

\* handleSubmit without its organisation check
OrgMissingNever(m) == FALSE

\* !organisationMember?.organisation_id
OrgMissing(m) == m.organisation_id = <<>>

\* the selected person taken whatever the role
FinalResponsiblePersonAsSelected(inst) == inst.responsiblePerson

\* const finalResponsiblePerson = isAdmin ? responsiblePerson : memberName
FinalResponsiblePerson(inst) ==
    IF IsAdmin(inst.member) THEN inst.responsiblePerson ELSE MemberName(inst.member)

\* the joined list written even when it is empty
FileColumnNeverNull(list) == Join(list, <<",", " ">>)

\* fileNames.length > 0 ? fileNames.join(', ') : null
FileColumn(list) == IF Len(list) > 0 THEN Join(list, <<",", " ">>) ELSE Null

\* the object passed to insert; the columns compliance_item, standard_clause,
\* compliance_status, next_review_date and notes are copies of form fields and are left out
InsertRow(inst) ==
    [organisation_id |-> inst.member.organisation_id,
     responsible_person |-> FinalResponsiblePerson(inst),
     file_name |-> FileColumn(inst.fileNames),
     file_path |-> FileColumn(inst.filePaths)]

\* `Failed to upload file ${file.name}: ${uploadError.message}`
UploadErrorToast(inst, cause) ==
    [title |-> "Error", text |-> "Failed to upload file", file |-> inst.files[inst.uploadCalls],
     cause |-> cause, count |-> 0, variant |-> "destructive"]

\* `Database error: ${error.message}`
DatabaseErrorToast(cause) ==
    [title |-> "Error", text |-> "Database error", file |-> <<>>,
     cause |-> cause, count |-> 0, variant |-> "destructive"]

\* `Compliance record added successfully${files.length > 0 ? ` with ${files.length} file(s)` : ''}`
SuccessToast(inst) ==
    [title |-> "Success", text |-> "Compliance record added successfully", file |-> <<>>,
     cause |-> "", count |-> Len(inst.files), variant |-> ""]

RECURSIVE UploadsIssued(_)
\* the upload calls the first k invocations have issued
UploadsIssued(k) == IF k = 0 THEN 0 ELSE subs[k].uploadCalls + UploadsIssued(k - 1)

\* Date.now() when an upload is about to be issued: the clock has ticked since the
\* upload before it, so that no two storage keys are equal
Now == UploadsIssued(Len(subs))

\* what a rejected promise can carry: an Error, or a value that is not one
Rejections == { "rejected", "rejected non-Error" }

\* the notification of the catch for what a rejected promise carries:
\* error instanceof Error ? error.message : "Failed to add compliance record"
CaughtToast(rejection) ==
    ErrorToast(IF rejection = "rejected" THEN "net down" ELSE "Failed to add compliance record")

\* a throw inside a try of handleSubmit that has no finally
ThrowKeepsLoading(i, inst, toast) ==
    /\ subs' = [subs EXCEPT ![i] = [inst EXCEPT !.pc = "done", !.toasts = Append(@, toast)]]
    /\ UNCHANGED loading

\* a throw inside the try of handleSubmit: the catch shows the error, the finally
\* clears loading
Throw(i, inst, toast) ==
    /\ subs' = [subs EXCEPT ![i] = [inst EXCEPT !.pc = "done", !.toasts = Append(@, toast)]]
    /\ loading' = FALSE

\* from the resolution of the responsible person to the await of the insert
Persist(i, inst) ==
    IF FinalResponsiblePerson(inst) = <<>>
    THEN Throw(i, inst, ErrorToast("Responsible person is required"))
    ELSE /\ subs' = [subs EXCEPT ![i] = [inst EXCEPT !.pc = "insert", !.insertCalls = @ + 1,
                                                       !.row = InsertRow(inst)]]
         /\ UNCHANGED loading

\* the upload loop from the top of an iteration to the await of the upload; after the
\* last file the code goes on to the insert
UploadNext(i, inst) ==
    IF inst.uploadCalls < Len(inst.files)
    THEN \E rand \in Rands :
            LET name == inst.files[inst.uploadCalls + 1]
                path == StorageFilePath(inst.member.organisation_id,
                                        StorageFileName(Decimal(Now), rand, FileExt(name)))
            IN  /\ subs' = [subs EXCEPT ![i] = [inst EXCEPT !.pc = "upload", !.path = path,
                                                              !.uploadCalls = @ + 1]]
                /\ UNCHANGED loading
    ELSE Persist(i, inst)

\* createStorageBucket with a catch that throws again
ProvisionedOrThrown(i, inst, failed) ==
    IF failed THEN Throw(i, inst, ErrorToast("Storage bucket error")) ELSE UploadNext(i, inst)

\* createStorageBucket has returned: its catch swallows whatever went wrong
\* ("Don't throw here, continue with upload attempt")
Provisioned(i, inst, failed) == UploadNext(i, inst)

\* handleSubmit up to its first await, the listBuckets call of createStorageBucket, as
\* long as fewer than max invocations have been made
HandleSubmitWithin(max) ==
    /\ open
    /\ Len(subs) < max
    /\ LET inst == NewSubmission(member, responsiblePerson, files)
       IN  IF OrgMissing(member)
           THEN /\ subs' = Append(subs, [inst EXCEPT !.pc = "done",
                                          !.toasts = <<ErrorToast("Organisation not found")>>])
                /\ UNCHANGED loading
           ELSE /\ subs' = Append(subs, [inst EXCEPT !.pc = "listBuckets", !.listCalls = 1])
                /\ loading' = TRUE
    /\ UNCHANGED <<member, open, formVars, fetchVars, loaderToast, remoteVars, profileVars>>

\* the form is submitted
HandleSubmit == HandleSubmitWithin(MaxSubmissions)

\* the form is submitted, and submitted again
HandleSubmitOrRetry == HandleSubmitWithin(MaxRetrySubmissions)

\* what listBuckets can answer: the bucket names, an error (data is null), or a rejection
ListOutcomes == { "data", "null", "throw" }

\* buckets?.some(bucket => bucket.name === 'compliance-evidence')
BucketExists(outcome, names) == outcome = "data" /\ EvidenceBucket \in names

\* createStorageBucket from the answer of listBuckets to the await of createBucket, or to
\* its end when the bucket is listed
ListBucketsReturn ==
    \E i \in 1..Len(subs), outcome \in ListOutcomes :
        LET listed == IF outcome = "data" /\ EvidenceBucket \in buckets THEN "listed" ELSE outcome
            inst == [subs[i] EXCEPT !.listing = listed]
        IN  /\ inst.pc = "listBuckets"
            /\ IF outcome = "throw" THEN Provisioned(i, inst, TRUE)
               ELSE IF BucketExists(outcome, buckets) THEN Provisioned(i, inst, FALSE)
               ELSE /\ subs' = [subs EXCEPT ![i] = [inst EXCEPT !.pc = "createBucket",
                                                                  !.createCalls = @ + 1]]
                    /\ UNCHANGED loading
            /\ UNCHANGED <<member, open, formVars, fetchVars, loaderToast, remoteVars, profileVars>>

\* what createBucket can answer: done, or an error; an existing bucket is an error
CreateOutcomes == IF EvidenceBucket \in buckets THEN { "error" } ELSE { "ok", "error" }

\* createStorageBucket from the answer of createBucket on
CreateBucketReturn ==
    \E i \in 1..Len(subs), outcome \in CreateOutcomes :
        LET inst == [subs[i] EXCEPT !.creation = outcome]
        IN  /\ inst.pc = "createBucket"
            /\ buckets' = IF outcome = "ok" THEN buckets \cup {EvidenceBucket} ELSE buckets
            /\ Provisioned(i, inst, outcome = "error")
            /\ UNCHANGED <<member, open, formVars, fetchVars, loaderToast, objects, records, profileVars>>

\* what an upload can answer: stored, or an error (with upsert: false a path in use is
\* one); or its promise is rejected
UploadOutcomes == { "ok", "failed" } \cup Rejections

\* the upload loop from the answer of an upload on, when the answer is an error
UploadFailed(i, inst, cause) == Throw(i, inst, UploadErrorToast(inst, cause))

\* the upload loop from the answer of an upload on
UploadReturn ==
    \E i \in 1..Len(subs), outcome \in UploadOutcomes :
        LET answered == subs[i]
            inst == IF outcome = "ok" \/ answered.failedUpload > 0 THEN answered
                    ELSE [answered EXCEPT !.failedUpload = answered.uploadCalls]
        IN  /\ inst.pc = "upload"
            /\ IF outcome = "ok"
               THEN /\ objects' = objects \cup { [path |-> inst.path,
                                                  file |-> inst.files[inst.uploadCalls]] }
                    /\ UploadNext(i, [inst EXCEPT
                           !.fileNames = Append(@, inst.files[inst.uploadCalls]),
                           !.filePaths = Append(@, inst.path)])
               ELSE /\ IF outcome \in Rejections
                       THEN Throw(i, inst, CaughtToast(outcome))
                       ELSE UploadFailed(i, inst, outcome)
                    /\ UNCHANGED objects
            /\ UNCHANGED <<member, open, formVars, fetchVars, loaderToast, buckets, records, profileVars>>

\* what the insert can answer: the row, or an error; or its promise is rejected
InsertOutcomes == { "ok", "error" } \cup Rejections

\* handleSubmit from the answer of the insert on
InsertReturn ==
    \E i \in 1..Len(subs), outcome \in InsertOutcomes :
        LET inst == subs[i]
        IN  /\ inst.pc = "insert"
            /\ IF outcome = "ok"
               THEN /\ records' = Append(records, inst.row)
                    /\ subs' = [subs EXCEPT ![i] = [inst EXCEPT !.pc = "done",
                                    !.toasts = Append(@, SuccessToast(inst)),
                                    !.successCalls = @ + 1, !.closeCalls = @ + 1,
                                    !.resetCalls = @ + 1, !.inserted = @ + 1]]
                    /\ open' = FALSE
                    /\ ResetForm
                    /\ loading' = FALSE
               ELSE /\ IF outcome \in Rejections
                       THEN Throw(i, inst, CaughtToast(outcome))
                       ELSE Throw(i, inst, DatabaseErrorToast(outcome))
                    /\ UNCHANGED <<records, open, formVars>>
            /\ UNCHANGED <<member, fetchVars, loaderToast, buckets, objects, profileVars>>

\* ---------------------------------------------------------------- avatar upload

\* what the file input can hand over: no file, or one file
AvatarSelections == { <<>>, << <<"a", ".", "p">> >>, << <<"b">> >> }

\* values `${Math.random()}` can take
AvatarRands == { <<"0", ".", "1">>, <<"0", ".", "2">> }

\* what the upload and updateUser can answer: done, an error with a message, an error
\* without one; or the promise is rejected with null or undefined
AvatarOutcomes == { "ok", "error", "error without message", "rejected with nothing" }

\* `${user.id}-${Math.random()}.${fileExt}`
AvatarFileName(id, rand, ext) == id \o <<"-">> \o rand \o <<".">> \o ext

\* getPublicUrl(fileName).data.publicUrl
PublicUrl(fileName) == <<"/">> \o fileName

\* an invocation of handleAvatarUpload: its event (files), the user it closed over, where
\* it is suspended (pc), its local fileName, the calls it issued (uploadCalls,
\* setUrlCalls, updateCalls, toasts) and the answers it got (uploadAnswer, updateAnswer)
NewAvatarRun(u, sel) ==
    [user |-> u, files |-> sel, pc |-> "start", fileName |-> <<>>,
     uploadCalls |-> 0, setUrlCalls |-> 0, updateCalls |-> 0, toasts |-> <<>>,
     uploadAnswer |-> "", updateAnswer |-> ""]

\* error.message || "Failed to upload avatar. Please try again."
AvatarErrorToast(message) ==
    ErrorToast(IF message = "" THEN "Failed to upload avatar. Please try again." ELSE message)

\* toast({ title: "Success", description: "Avatar updated successfully!" })
AvatarSuccessToast ==
    [title |-> "Success", text |-> "Avatar updated successfully!", file |-> <<>>,
     cause |-> "", count |-> 0, variant |-> ""]

\* the message of the error an answer carries
MessageOf(outcome) == IF outcome = "error" THEN "upload or update error" ELSE ""

\* the auth context supplies another user
UserChange ==
    \E u \in Users \ {user} :
        /\ user' = u
        /\ UNCHANGED <<avatarUrl, uploading, avatarRuns, avatarObjects, userMetadata, dialogVars>>

\* a throw inside the try of handleAvatarUpload: the catch shows the error, the finally
\* clears uploading
AvatarThrow(r, run, message) ==
    /\ avatarRuns' = [avatarRuns EXCEPT ![r] =
                        [run EXCEPT !.pc = "done", !.toasts = Append(@, AvatarErrorToast(message))]]
    /\ uploading' = FALSE

\* the catch of handleAvatarUpload when what it caught is null or undefined: reading
\* error.message throws a TypeError before toast() is called; the finally clears uploading
AvatarCatchThrows(r, run) ==
    /\ avatarRuns' = [avatarRuns EXCEPT ![r] = [run EXCEPT !.pc = "done"]]
    /\ uploading' = FALSE

\* handleAvatarUpload up to the await of the upload
HandleAvatarUpload ==
    \E sel \in AvatarSelections, rand \in AvatarRands :
        /\ Len(avatarRuns) < MaxAvatarRuns
        /\ LET r == Len(avatarRuns) + 1
               run == NewAvatarRun(user, sel)
               started == Append(avatarRuns, run)
           IN  IF sel = <<>>
               THEN /\ avatarRuns' = [started EXCEPT ![r] = [run EXCEPT !.pc = "done",
                          !.toasts = <<AvatarErrorToast("You must select an image to upload.")>>]]
                    /\ uploading' = FALSE
               ELSE IF user = <<>>
               THEN /\ avatarRuns' = [started EXCEPT ![r] = [run EXCEPT !.pc = "done",
                          !.toasts = <<AvatarErrorToast("User not authenticated")>>]]
                    /\ uploading' = FALSE
               ELSE /\ avatarRuns' = [started EXCEPT ![r] = [run EXCEPT !.pc = "upload",
                          !.fileName = AvatarFileName(user, rand, FileExt(sel[1])),
                          !.uploadCalls = 1]]
                    /\ uploading' = TRUE
        /\ UNCHANGED <<user, avatarUrl, avatarObjects, userMetadata, dialogVars>>

\* if (uploadError) throw uploadError
AvatarUploadFailed(r, run, message) == AvatarThrow(r, run, message)

\* handleAvatarUpload from the answer of the upload to the await of updateUser
AvatarUploadReturn ==
    \E r \in 1..Len(avatarRuns), outcome \in AvatarOutcomes :
        LET run == [avatarRuns[r] EXCEPT !.uploadAnswer = outcome]
        IN  /\ run.pc = "upload"
            /\ IF outcome = "ok"
               THEN /\ avatarObjects' =
                          { o \in avatarObjects : o.key # run.fileName }
                              \cup { [key |-> run.fileName, file |-> run.files[1]] }
                    /\ avatarUrl' = PublicUrl(run.fileName)
                    /\ avatarRuns' = [avatarRuns EXCEPT ![r] =
                          [run EXCEPT !.pc = "update", !.setUrlCalls = @ + 1,
                                      !.updateCalls = @ + 1]]
                    /\ UNCHANGED uploading
               ELSE /\ IF outcome = "rejected with nothing"
                       THEN AvatarCatchThrows(r, run)
                       ELSE AvatarUploadFailed(r, run, MessageOf(outcome))
                    /\ UNCHANGED <<avatarObjects, avatarUrl>>
            /\ UNCHANGED <<user, userMetadata, dialogVars>>

\* handleAvatarUpload from the answer of updateUser on
UpdateUserReturn ==
    \E r \in 1..Len(avatarRuns), outcome \in AvatarOutcomes :
        LET run == [avatarRuns[r] EXCEPT !.updateAnswer = outcome]
        IN  /\ run.pc = "update"
            /\ IF outcome = "ok"
               THEN /\ userMetadata' = PublicUrl(run.fileName)
                    /\ avatarRuns' = [avatarRuns EXCEPT ![r] =
                          [run EXCEPT !.pc = "done", !.toasts = Append(@, AvatarSuccessToast)]]
                    /\ uploading' = FALSE
               ELSE /\ IF outcome = "rejected with nothing"
                       THEN AvatarCatchThrows(r, run)
                       ELSE AvatarThrow(r, run, MessageOf(outcome))
                    /\ UNCHANGED userMetadata
            /\ UNCHANGED <<user, avatarUrl, avatarObjects, dialogVars>>

\* ---------------------------------------------------------------- specifications

\* the submission pipeline, with the renders, the edits and the changes of identity that
\* decide what an invocation of handleSubmit closes over
Next ==
    \/ OpenDialog
    \/ AuthChange
    \/ FetchStandardsReturn
    \/ SetResponsiblePerson
    \/ SetFiles
    \/ HandleSubmit
    \/ ListBucketsReturn
    \/ CreateBucketReturn
    \/ UploadReturn
    \/ InsertReturn

Spec == Init /\ [][Next]_vars

\* the standards loader, with the renders and the changes of identity that trigger it
NextStandards ==
    \/ OpenDialog
    \/ CloseDialog
    \/ AuthChange
    \/ FetchStandardsReturn
    \/ SetStandardClause

SpecStandards == Init /\ [][NextStandards]_vars

\* the form state holder and the submission pipeline, for one caller identity
NextForm ==
    \/ OpenDialog
    \/ FetchStandardsReturn
    \/ SetComplianceItem
    \/ SetStandardClause
    \/ SetComplianceStatus
    \/ SetResponsiblePerson
    \/ SetNextReviewDate
    \/ SetNotes
    \/ SetFiles
    \/ HandleSubmit
    \/ ListBucketsReturn
    \/ CreateBucketReturn
    \/ UploadReturn
    \/ InsertReturn

SpecForm == Init /\ [][NextForm]_vars

\* the dialog of a caller who has an organisation, is not an admin and has no full name
\* (the responsible person resolves to the email, or to nothing), constructed when the
\* evidence bucket exists
InitRetry ==
    /\ Init
    /\ ~OrgMissing(member)
    /\ ~IsAdmin(member)
    /\ member.full_name = <<>>
    /\ EvidenceBucket \in buckets

\* the submission pipeline when the user submits again
NextRetry ==
    \/ OpenDialog
    \/ FetchStandardsReturn
    \/ SetFiles
    \/ HandleSubmitOrRetry
    \/ ListBucketsReturn
    \/ CreateBucketReturn
    \/ UploadReturn
    \/ InsertReturn

\* every network call that is awaited is answered at some time
NetworkAnswers ==
    /\ WF_vars(ListBucketsReturn)
    /\ WF_vars(CreateBucketReturn)
    /\ WF_vars(UploadReturn)
    /\ WF_vars(InsertReturn)

SpecRetry == InitRetry /\ [][NextRetry]_vars /\ NetworkAnswers

\* the avatar upload of ProfileSettings
NextAvatar ==
    \/ UserChange
    \/ HandleAvatarUpload
    \/ AvatarUploadReturn
    \/ UpdateUserReturn

SpecAvatar == Init /\ [][NextAvatar]_vars

\* ---------------------------------------------------------------- properties

Submissions == 1..Len(subs)

\* the network calls an invocation of handleSubmit has issued
CallsIssued(inst) == inst.listCalls + inst.createCalls + inst.uploadCalls + inst.insertCalls

\* the caller's own full name, or the email when the full name is empty
OwnName(m) == IF m.full_name = <<>> THEN m.email ELSE m.full_name

\* C1: an invocation of handleSubmit with no organisation_id on the caller identity is
\* over at once with the one notification "Organisation not found", it never issues a
\* bucket listing, bucket creation, upload or insert, and the step that starts it leaves
\* the pending fetches, the loading flag and the remote services as they were.
C1_OrgMissingRejected ==
    [][\A i \in 1..Len(subs') :
          subs'[i].member.organisation_id = <<>> =>
              /\ subs'[i].pc = "done"
              /\ subs'[i].toasts = <<ErrorToast("Organisation not found")>>
              /\ CallsIssued(subs'[i]) = 0
              /\ subs'[i].inserted = 0
              /\ (i > Len(subs) => UNCHANGED <<fetchVars, loading, remoteVars>>)]_vars

C1_Witness ==
    \E i \in Submissions :
        /\ subs[i].member.organisation_id = <<>>
        /\ subs[i].files # <<>>
        /\ subs[i].pc = "done"

\* C2: an invocation of handleSubmit by an admin with no responsible person selected
\* issues no network call at all, and ends with the one notification "Responsible person
\* is required".
C2_AdminWithoutPersonRejectedFirst ==
    \A i \in Submissions :
        /\ subs[i].member.organisation_id # <<>>
        /\ subs[i].member.role = "admin"
        /\ subs[i].responsiblePerson = <<>>
        => /\ CallsIssued(subs[i]) = 0
           /\ subs[i].pc = "done"
           /\ subs[i].toasts = <<ErrorToast("Responsible person is required")>>

\* C3: when upload K of N is the first to fail, the invocation is over; uploads 1..K-1
\* are in storage; exactly K uploads were issued; no insert was issued; and the one
\* notification is an error naming file K.
C3_UploadFailureAborts ==
    \A i \in Submissions :
        LET inst == subs[i]
            K == inst.failedUpload
        IN  K > 0 =>
              /\ inst.pc = "done"
              /\ inst.uploadCalls = K
              /\ Len(inst.filePaths) = K - 1
              /\ \A j \in 1..(K - 1) :
                    [path |-> inst.filePaths[j], file |-> inst.files[j]] \in objects
              /\ inst.insertCalls = 0
              /\ inst.inserted = 0
              /\ Len(inst.toasts) = 1
              /\ inst.toasts[1].variant = "destructive"
              /\ inst.toasts[1].text = "Failed to upload file"
              /\ inst.toasts[1].file = inst.files[K]

\* an entry of a comma-separated list, without the space the join puts after the comma
StripSpace(e) == IF e # <<>> /\ Head(e) = " " THEN Tail(e) ELSE e

\* the entries of a comma-separated list
CommaEntries(text) ==
    LET parts == Split(text, ",")
    IN  [k \in 1..Len(parts) |-> StripSpace(parts[k])]

\* C4: after a submission with N >= 1 files whose uploads and insert all succeeded, the
\* file_name and file_path of its row each hold exactly N comma-separated entries, entry
\* k of file_name is the name of file k, and entry k of file_path is the path under which
\* file k is stored.
C4_FileColumnsCorrespond ==
    \A i \in Submissions :
        LET inst == subs[i]
            N == Len(inst.files)
            names == CommaEntries(inst.row.file_name)
            paths == CommaEntries(inst.row.file_path)
        IN  (inst.inserted = 1 /\ N >= 1) =>
              /\ Len(names) = N
              /\ Len(paths) = N
              /\ \A k \in 1..N :
                    /\ names[k] = inst.files[k]
                    /\ [path |-> paths[k], file |-> inst.files[k]] \in objects

\* the successful invocations of handleSubmit
Succeeded == { i \in Submissions : subs[i].inserted = 1 }

\* C5: an invocation of handleSubmit with an organisation, a resolvable responsible
\* person and no files issues no upload; once it is over it has issued exactly one
\* insert, of a row whose file_name and file_path are null; and the table holds one row
\* for each invocation whose insert succeeded, that row.
C5_NoFilesNullColumns ==
    /\ Len(records) = Cardinality(Succeeded)
    /\ \A i \in Submissions :
          LET inst == subs[i]
              person == IF inst.member.role = "admin" THEN inst.responsiblePerson
                        ELSE OwnName(inst.member)
          IN  (inst.member.organisation_id # <<>> /\ person # <<>> /\ inst.files = <<>>) =>
                /\ inst.uploadCalls = 0
                /\ inst.inserted <= 1
                /\ inst.pc = "done" =>
                      /\ inst.insertCalls = 1
                      /\ inst.row.file_name = Null
                      /\ inst.row.file_path = Null
                /\ inst.inserted = 1 =>
                      \E r \in 1..Len(records) : records[r] = inst.row

C5_Witness ==
    \E i \in Submissions :
        /\ subs[i].files = <<>>
        /\ subs[i].inserted = 1
        /\ Len(records) = 1

\* C6: a row that an invocation of handleSubmit by a caller who is not an admin passes to
\* insert has the caller's own name as responsible_person, whatever person the form
\* holds; and the selector of a responsible person is not offered to such a caller.
C6_NonAdminOwnName ==
    /\ member.role # "admin" => ~SelectorOffered
    /\ \A i \in Submissions :
          (subs[i].member.role # "admin" /\ subs[i].insertCalls > 0) =>
              /\ subs[i].row.responsible_person = OwnName(subs[i].member)
              /\ subs[i].inserted = 1 =>
                    \E r \in 1..Len(records) :
                        records[r].responsible_person = OwnName(subs[i].member)

C6_Witness ==
    \E i \in Submissions :
        /\ subs[i].member.role = "member"
        /\ subs[i].member.full_name = <<>>
        /\ subs[i].responsiblePerson # <<>>
        /\ subs[i].inserted = 1

\* the listing or the creation of the bucket went wrong
ProvisionFailed(inst) == inst.listing = "throw" \/ inst.creation = "error"

\* C10: an invocation of handleSubmit that passed the organisation check lists the
\* buckets exactly once, and before that call and a creation call are answered it issues
\* no upload and no insert; it issues a creation call, once, only when the listing did
\* not show the bucket; and when listing or creation went wrong it still issues the
\* uploads up to the first that fails and, if none fails and the responsible person
\* resolves, the insert, and it shows no notification but the one of those later stages.
C10_ProvisionOnceErrorsSwallowed ==
    \A i \in Submissions :
        LET inst == subs[i]
            person == IF inst.member.role = "admin" THEN inst.responsiblePerson
                      ELSE OwnName(inst.member)
        IN  inst.member.organisation_id # <<>> =>
              /\ inst.listCalls = 1
              /\ inst.createCalls = IF inst.listing \in {"data", "null"} THEN 1 ELSE 0
              /\ inst.pc \in {"listBuckets", "createBucket"} =>
                    (inst.uploadCalls = 0 /\ inst.insertCalls = 0 /\ inst.toasts = <<>>)
              /\ (ProvisionFailed(inst) /\ inst.pc = "done") =>
                    /\ inst.uploadCalls = IF inst.failedUpload > 0 THEN inst.failedUpload
                                          ELSE Len(inst.files)
                    /\ inst.insertCalls = IF inst.failedUpload = 0 /\ person # <<>> THEN 1 ELSE 0
                    /\ Len(inst.toasts) = 1
                    /\ inst.toasts[1].text \in
                          { "Failed to upload file", "Responsible person is required",
                            "Database error", "Compliance record added successfully",
                            "net down", "Failed to add compliance record" }

C10_Witness ==
    \E i \in Submissions :
        /\ subs[i].creation = "error"
        /\ Len(subs[i].files) = 2
        /\ subs[i].inserted = 1

\* the form fields are at the values useState gave them
FormIsInitial ==
    /\ complianceItem = <<>>
    /\ standardClause = <<>>
    /\ complianceStatus = <<>>
    /\ responsiblePerson = <<>>
    /\ nextReviewDate = <<>>
    /\ notes = <<>>
    /\ files = <<>>

\* C7: the step in which an invocation of handleSubmit ends after its insert succeeded
\* leaves item, clause, status, person, date, notes and files at their initial values and
\* the dialog asked to close, and that invocation has called the success callback exactly
\* once; the step in which an invocation ends in any other way leaves the form fields as
\* they were, and that invocation never calls the success callback.
C7_SuccessResetsForm ==
    [][\A i \in 1..Len(subs') :
          LET now == subs'[i]
              ends == now.pc = "done" /\ (i <= Len(subs) => subs[i].pc # "done")
          IN  /\ now.inserted = 1 => (now.successCalls = 1 /\ now.closeCalls = 1)
              /\ now.inserted = 0 => (now.successCalls = 0 /\ now.closeCalls = 0)
              /\ (ends /\ now.inserted = 1) => (FormIsInitial' /\ open' = FALSE)
              /\ (ends /\ now.inserted = 0) => UNCHANGED formVars]_vars

C7_Witness ==
    \E i \in Submissions :
        /\ subs[i].inserted = 1
        /\ subs[i].files # <<>>
        /\ subs[i].responsiblePerson # <<>>
        /\ FormIsInitial
        /\ ~open

\* C8: the standards list of the dialog is in ascending clause order and holds only
\* standards of the caller's current organisation.
C8_StandardsSortedAndScoped ==
    /\ \A k \in 1..(Len(standards) - 1) :
          ClauseLeq(standards[k].standard_clause, standards[k + 1].standard_clause)
    /\ \A k \in 1..Len(standards) :
          standards[k].organisation_id = member.organisation_id

AvatarRunsMade == 1..Len(avatarRuns)

\* C9: an avatar upload whose upload or metadata update fails shows one notification, an
\* error; when the upload failed, no metadata update was issued and the displayed avatar
\* URL was not set; when the metadata update failed, the uploaded object is still in
\* storage; and when no avatar upload is under way, the uploading flag is false.
C9_AvatarFailureAborts ==
    /\ (\A r \in AvatarRunsMade : avatarRuns[r].pc = "done") => uploading = FALSE
    /\ \A r \in AvatarRunsMade :
          LET run == avatarRuns[r]
          IN  /\ run.uploadAnswer \notin {"", "ok"} =>
                    /\ run.pc = "done"
                    /\ run.updateCalls = 0
                    /\ run.setUrlCalls = 0
                    /\ Len(run.toasts) = 1
                    /\ run.toasts[1].variant = "destructive"
              /\ run.updateAnswer \notin {"", "ok"} =>
                    /\ run.pc = "done"
                    /\ \E o \in avatarObjects : o.key = run.fileName
                    /\ Len(run.toasts) = 1
                    /\ run.toasts[1].variant = "destructive"

\* C11: the step in which fetchStandards shows its load-error notification leaves the
\* standards list empty and standardsLoading false, so that the selector shows "No
\* standards available"; also when the failing fetch is the one of a reopen after a fetch
\* that succeeded.
C11_FetchFailureLeavesListEmpty ==
    [][(loaderToast' # loaderToast /\ loaderToast' = ErrorToast("Failed to fetch standards"))
          => (standards' = <<>> /\ NoStandardsShown')]_vars

\* C13: when the dialog is opened again after a close and no invocation of handleSubmit
\* has succeeded, item, clause, status, person, date, notes and files are at their initial
\* values; and a close by Cancel or the X control leaves the invocations of handleSubmit,
\* the pending fetches and the remote services as they were.
C13_CloseDiscardsForm ==
    [][/\ (~open /\ open' /\ Succeeded = {}) => FormIsInitial'
       /\ (open /\ ~open' /\ Succeeded' = Succeeded) =>
              UNCHANGED <<subs, pendingFetches, remoteVars>>]_vars

\* the invocations of handleSubmit that are over
Over == { i \in Submissions : subs[i].pc = "done" }

\* C12: when every awaited network call is answered at some time, a time comes after
\* which every invocation of handleSubmit that started is over and the loading flag is
\* false; the loading flag is false whenever no invocation is under way; an invocation
\* that is over has shown exactly one notification and one that is not has shown none; an
\* invocation issues the listing, the creation and the insert at most once each and at
\* most one upload per file; and an invocation that starts, the first or a later one, has
\* issued nothing but its own bucket listing.
C12_SubmissionTerminates ==
    /\ <>[](Over = Submissions /\ ~loading)
    /\ [](Over = Submissions => ~loading)
    /\ [](\A i \in Submissions :
             /\ Len(subs[i].toasts) = (IF i \in Over THEN 1 ELSE 0)
             /\ subs[i].listCalls <= 1
             /\ subs[i].createCalls <= 1
             /\ subs[i].insertCalls <= 1
             /\ subs[i].uploadCalls <= Len(subs[i].files))
    /\ [][\A i \in 1..Len(subs') :
             i > Len(subs) =>
                 /\ subs'[i].member.organisation_id # <<>> =>
                       (subs'[i].pc = "listBuckets" /\ subs'[i].listCalls = 1 /\ loading')
                 /\ subs'[i].createCalls + subs'[i].uploadCalls + subs'[i].insertCalls = 0
                 /\ subs'[i].fileNames = <<>>
                 /\ subs'[i].filePaths = <<>>]_vars

\* a submission whose upload failed was followed by another, of the same files, that
\* listed the buckets again, uploaded again and succeeded
C12_Witness ==
    /\ Len(subs) = 2
    /\ subs[1].failedUpload = 2
    /\ subs[2].files = subs[1].files
    /\ subs[2].listCalls = 1
    /\ subs[2].inserted = 1
    /\ Over = Submissions
    /\ ~loading

====
